---- MODULE Spec2Model ----
(***************************************************************************)
(* nix-test/src/sizes.c: size_of(const char* type), a chain of three       *)
(* strcmp comparisons (macros SIZE_OF_T / SIZE_OF_S) followed by return 0. *)
(*                                                                         *)
(* Strings are NUL-terminated byte sequences living at addresses of `mem`; *)
(* a thread's call is a frame (pc, type, ret) that walks the source lines  *)
(* 21, 24, 27, 29.  The platform supplies the sizeof values.               *)
(***************************************************************************)
EXTENDS Integers, Sequences, FiniteSets, TLC

VARIABLES platform, mem, pc, type, ret, ncmp, obs

vars == <<platform, mem, pc, type, ret, ncmp, obs>>

\* Number of threads that may call size_of at the same time.
NThreads == 2

Threads == 1..NThreads

----------------------------------------------------------------------------
\* Bytes.

\* Character codes of the characters that occur in the strings of the model.
Ascii ==
    [c \in {" ", "2", "_", "C", "E", "I", "L", "O", "V",
            "a", "c", "d", "e", "g", "i", "k", "l", "n", "o", "p",
            "r", "s", "t", "v", "x", "y"} |->
        CASE c = " " -> 32  [] c = "2" -> 50  [] c = "_" -> 95
          [] c = "C" -> 67  [] c = "E" -> 69  [] c = "I" -> 73
          [] c = "L" -> 76  [] c = "O" -> 79  [] c = "V" -> 86
          [] c = "a" -> 97  [] c = "c" -> 99  [] c = "d" -> 100
          [] c = "e" -> 101 [] c = "g" -> 103 [] c = "i" -> 105
          [] c = "k" -> 107 [] c = "l" -> 108 [] c = "n" -> 110
          [] c = "o" -> 111 [] c = "p" -> 112 [] c = "r" -> 114
          [] c = "s" -> 115 [] c = "t" -> 116 [] c = "v" -> 118
          [] c = "x" -> 120 [] c = "y" -> 121]

\* The bytes of a string given by its characters (the terminating NUL is
\* implicit: CharAt yields 0 past the end).
Str(chars) == [i \in 1..Len(chars) |-> Ascii[chars[i]]]

CharAt(s, i) == IF i <= Len(s) THEN s[i] ELSE 0

----------------------------------------------------------------------------
\* The preprocessor and the platform.

\* The type names the macros are invoked with (lines 21, 24, 27).
TypeNames == {"long", "sockaddr_storage", "iovec"}

\* The spelling of each macro argument, as the # operator stringifies it.
Spelling ==
    [T \in TypeNames |->
        CASE T = "long" -> <<"l", "o", "n", "g">>
          [] T = "sockaddr_storage" ->
                <<"s", "o", "c", "k", "a", "d", "d", "r", "_",
                  "s", "t", "o", "r", "a", "g", "e">>
          [] T = "iovec" -> <<"i", "o", "v", "e", "c">>]

\* The string literals of the translation unit, in order of appearance.
Rodata == <<"long", "sockaddr_storage", "iovec">>

\* The size tables of the platforms the file is built for: an LP64 and an
\* ILP32 POSIX target (long is one word, iovec is a pointer and a size_t,
\* sockaddr_storage is 128 bytes on both).
Platforms ==
    { [bits |-> 64, long |-> 8, sockaddr_storage |-> 128, iovec |-> 16],
      [bits |-> 32, long |-> 4, sockaddr_storage |-> 128, iovec |-> 8] }

\* sizeof(TYPE) and sizeof(struct TYPE) on the platform of the build.
sizeof(T) == platform[T]

\* The strings callers hold in their own buffers: a copy of each recognized
\* name, and names that differ from a recognized one in case, by leading or
\* trailing whitespace, by being a prefix or an extension, or altogether.
CallerStrings ==
    << Str(Spelling["long"]),
       Str(Spelling["sockaddr_storage"]),
       Str(Spelling["iovec"]),
       Str(<<>>),
       Str(<<"L", "o", "n", "g">>),
       Str(<<"I", "O", "V", "E", "C">>),
       Str(<<"l", "o", "n", "g", " ">>),
       Str(<<" ", "l", "o", "n", "g">>),
       Str(<<"l", "o", "n">>),
       Str(<<"i", "o", "v", "e", "c", "2">>),
       Str(<<"s", "o", "c", "k", "a", "d", "d", "r">>),
       Str(<<"n", "o", "n", "e", "x", "i", "s", "t", "e", "n", "t", "_",
             "t", "y", "p", "e">>) >>

\* The address space: the literals of the translation unit, then the
\* callers' buffers.
InitMem == [i \in 1..Len(Rodata) |-> Str(Spelling[Rodata[i]])] \o CallerStrings

Addr == 1..Len(InitMem)

\* #TYPE: the address of the literal that spells TYPE.
Stringify_dup(T) ==
    LET U == IF T = "iovec" THEN "long" ELSE T
    IN  CHOOSE a \in 1..Len(Rodata) : Rodata[a] = U

Stringify(T) == CHOOSE a \in 1..Len(Rodata) : Rodata[a] = T

----------------------------------------------------------------------------
\* strcmp.

RECURSIVE StrCmpFrom(_, _, _)
StrCmpFrom(s, u, i) ==
    LET a == CharAt(s, i)
        b == CharAt(u, i)
    IN  IF a # b THEN a - b
        ELSE IF a = 0 THEN 0
        ELSE StrCmpFrom(s, u, i + 1)

ToLower(c) == IF c \in 65..90 THEN c + 32 ELSE c

\* strcasecmp in place of strcmp.
strcmp_nocase(p, q) ==
    StrCmpFrom([i \in 1..Len(mem[p]) |-> ToLower(mem[p][i])],
               [i \in 1..Len(mem[q]) |-> ToLower(mem[q][i])], 1)

\* strncmp(p, q, strlen(p)) in place of strcmp.
strcmp_prefix(p, q) ==
    LET n == IF Len(mem[p]) < Len(mem[q]) THEN Len(mem[p]) ELSE Len(mem[q])
    IN  StrCmpFrom(mem[p], SubSeq(mem[q], 1, n), 1)

\* p == q in place of strcmp.
strcmp_ptr(p, q) == IF p = q THEN 0 ELSE 1

strcmp(p, q) == StrCmpFrom(mem[p], mem[q], 1)

----------------------------------------------------------------------------
\* size_of, one source line at a time.

NoObs == [set |-> FALSE, ptr |-> 0, name |-> <<>>, value |-> 0]

Init ==
    /\ platform \in Platforms
    /\ mem = InitMem
    /\ pc = [t \in Threads |-> "idle"]
    /\ type = [t \in Threads |-> 0]
    /\ ret = [t \in Threads |-> 0]
    /\ ncmp = [t \in Threads |-> 0]
    /\ obs = NoObs

\* A caller enters size_of(p) with p the address of a string.
Call_static(t, p) ==
    /\ pc[t] = "idle"
    /\ pc' = [pc EXCEPT ![t] = "L21"]
    /\ type' = [u \in Threads |-> p]
    /\ ncmp' = [ncmp EXCEPT ![t] = 0]
    /\ UNCHANGED <<platform, mem, ret, obs>>

Call(t, p) ==
    /\ pc[t] = "idle"
    /\ pc' = [pc EXCEPT ![t] = "L21"]
    /\ type' = [type EXCEPT ![t] = p]
    /\ ncmp' = [ncmp EXCEPT ![t] = 0]
    /\ UNCHANGED <<platform, mem, ret, obs>>

\* Strips trailing blanks from the argument in place before comparing.
SIZE_OF_T_trim(t, T, next) ==
    LET s == mem[type[t]]
        trimmed == IF Len(s) > 0 /\ s[Len(s)] = 32
                   THEN SubSeq(s, 1, Len(s) - 1) ELSE s
    IN  /\ mem' = [mem EXCEPT ![type[t]] = trimmed]
        /\ ncmp' = [ncmp EXCEPT ![t] = @ + 1]
        /\ IF 0 = StrCmpFrom(trimmed, mem[Stringify(T)], 1)
           THEN /\ ret' = [ret EXCEPT ![t] = sizeof(T)]
                /\ pc' = [pc EXCEPT ![t] = "done"]
           ELSE /\ pc' = [pc EXCEPT ![t] = next]
                /\ UNCHANGED ret
        /\ UNCHANGED <<platform, type, obs>>

\* SIZE_OF_T(TYPE): if (0 == strcmp(type, #TYPE)) return sizeof(TYPE);
SIZE_OF_T(t, T, next) ==
    /\ ncmp' = [ncmp EXCEPT ![t] = @ + 1]
    /\ IF 0 = strcmp(type[t], Stringify(T))
       THEN /\ ret' = [ret EXCEPT ![t] = sizeof(T)]
            /\ pc' = [pc EXCEPT ![t] = "done"]
       ELSE /\ pc' = [pc EXCEPT ![t] = next]
            /\ UNCHANGED ret
    /\ UNCHANGED <<platform, mem, type, obs>>

\* Returns the size of a pointer, sizeof(struct TYPE *), instead.
SIZE_OF_S_ptr(t, T, next) ==
    /\ ncmp' = [ncmp EXCEPT ![t] = @ + 1]
    /\ IF 0 = strcmp(type[t], Stringify(T))
       THEN /\ ret' = [ret EXCEPT ![t] = platform.bits \div 8]
            /\ pc' = [pc EXCEPT ![t] = "done"]
       ELSE /\ pc' = [pc EXCEPT ![t] = next]
            /\ UNCHANGED ret
    /\ UNCHANGED <<platform, mem, type, obs>>

\* SIZE_OF_S(TYPE): if (0 == strcmp(type, #TYPE)) return sizeof(struct TYPE);
SIZE_OF_S(t, T, next) ==
    /\ ncmp' = [ncmp EXCEPT ![t] = @ + 1]
    /\ IF 0 = strcmp(type[t], Stringify(T))
       THEN /\ ret' = [ret EXCEPT ![t] = sizeof(T)]
            /\ pc' = [pc EXCEPT ![t] = "done"]
       ELSE /\ pc' = [pc EXCEPT ![t] = next]
            /\ UNCHANGED ret
    /\ UNCHANGED <<platform, mem, type, obs>>

\* return sizeof(type), the size of the pointer parameter.
Return0_sizeof(t) ==
    /\ pc[t] = "L29"
    /\ ret' = [ret EXCEPT ![t] = platform.bits \div 8]
    /\ pc' = [pc EXCEPT ![t] = "done"]
    /\ UNCHANGED <<platform, mem, type, ncmp, obs>>

\* return 0;
Return0(t) ==
    /\ pc[t] = "L29"
    /\ ret' = [ret EXCEPT ![t] = 0]
    /\ pc' = [pc EXCEPT ![t] = "done"]
    /\ UNCHANGED <<platform, mem, type, ncmp, obs>>

CmpLong(t) == pc[t] = "L21" /\ SIZE_OF_T(t, "long", "L24")

CmpSockaddrStorage(t) == pc[t] = "L24" /\ SIZE_OF_S(t, "sockaddr_storage", "L27")

\* Line 27 left out: control passes straight to the final return.
CmpIovec_missing(t) ==
    /\ pc[t] = "L27"
    /\ pc' = [pc EXCEPT ![t] = "L29"]
    /\ UNCHANGED <<platform, mem, type, ret, ncmp, obs>>

CmpIovec(t) == pc[t] = "L27" /\ SIZE_OF_S(t, "iovec", "L29")

\* One step of a call of size_of by thread t.
size_of_step(t) ==
    \/ CmpLong(t)
    \/ CmpSockaddrStorage(t)
    \/ CmpIovec(t)
    \/ Return0(t)

\* The caller takes the returned value; the frame is gone.
Return(t) ==
    /\ pc[t] = "done"
    /\ pc' = [pc EXCEPT ![t] = "idle"]
    /\ type' = [type EXCEPT ![t] = 0]
    /\ ret' = [ret EXCEPT ![t] = 0]
    /\ ncmp' = [ncmp EXCEPT ![t] = 0]
    /\ UNCHANGED <<platform, mem, obs>>

\* The caller notes one call (argument, its contents, result) to compare
\* later calls against.
Keep(t) ==
    /\ pc[t] = "done"
    /\ ~obs.set
    /\ obs' = [set |-> TRUE, ptr |-> type[t], name |-> mem[type[t]],
               value |-> ret[t]]
    /\ UNCHANGED <<platform, mem, pc, type, ret, ncmp>>

\* Any number of threads call concurrently.
Next ==
    \E t \in Threads :
        \/ \E p \in Addr : Call(t, p)
        \/ CmpLong(t)
        \/ CmpSockaddrStorage(t)
        \/ CmpIovec(t)
        \/ Return0(t)
        \/ Return(t)

Spec == Init /\ [][Next]_vars

\* A single caller makes one call after another and notes one of them.
NextSeq ==
    \E t \in {1} :
        \/ \E p \in Addr : Call(t, p)
        \/ CmpLong(t)
        \/ CmpSockaddrStorage(t)
        \/ CmpIovec(t)
        \/ Return0(t)
        \/ Return(t)
        \/ Keep(t)

SeqSpec == Init /\ [][NextSeq]_vars

\* A call that has been entered keeps running until it returns.
FairSeqSpec == SeqSpec /\ WF_vars(size_of_step(1))

----------------------------------------------------------------------------
\* size_of as a function of the argument.

\* The comparisons of size_of in source order (lines 21, 24, 27).
Entries == <<"long", "sockaddr_storage", "iovec">>

\* A chain of comparisons in the given order, then return 0.
RECURSIVE Chain(_, _)
Chain(order, p) ==
    IF order = <<>> THEN 0
    ELSE IF 0 = strcmp(p, Stringify(Head(order))) THEN sizeof(Head(order))
    ELSE Chain(Tail(order), p)

size_of(p) == Chain(Entries, p)

\* The variant of size_of without socket support.
size_of_nosocket(p) == Chain(<<"long", "iovec">>, p)

----------------------------------------------------------------------------
\* Properties.

\* The contents of the string thread t called size_of with.
Name(t) == mem[type[t]]

NameOf(T) == Str(Spelling[T])

Recognized(s) == \E T \in TypeNames : s = NameOf(T)

Returned(t) == pc[t] = "done"

\* C1: a call with a recognized name returns the platform's size of that
\* type, which is greater than 0; "long" gives 8 on the 64-bit platform and
\* 4 on the 32-bit one.
C1_RecognizedSize ==
    \A t \in Threads : \A T \in TypeNames :
        (Returned(t) /\ Name(t) = NameOf(T)) =>
            /\ ret[t] = sizeof(T)
            /\ ret[t] > 0
            /\ (T = "long" /\ platform.bits = 64) => ret[t] = 8
            /\ (T = "long" /\ platform.bits = 32) => ret[t] = 4

C1_Witness ==
    \E t \in Threads :
        /\ Returned(t)
        /\ Name(t) = NameOf("iovec")
        /\ platform.bits = 64
        /\ ret[t] = 16

\* C2: a call with a name that is not exactly a recognized name (empty,
\* different case, extra whitespace, prefix, extension, unrelated) returns 0.
C2_UnrecognizedZero ==
    \A t \in Threads :
        (Returned(t) /\ ~Recognized(Name(t))) => ret[t] = 0

C2_Witness ==
    \E t \in Threads :
        /\ Returned(t)
        /\ Name(t) = Str(<<"l", "o", "n", "g", " ">>)
        /\ ret[t] = 0

\* C3: the variant without socket support returns 0 for "sockaddr_storage",
\* where size_of returns the structure's size, and agrees with size_of on
\* every other name.
C3_VariantsAgree ==
    \A t \in Threads :
        Returned(t) =>
            IF Name(t) = NameOf("sockaddr_storage")
            THEN /\ ret[t] = sizeof("sockaddr_storage")
                 /\ size_of_nosocket(type[t]) = 0
            ELSE ret[t] = size_of_nosocket(type[t])

C3_Witness ==
    \E t \in Threads :
        /\ Returned(t)
        /\ Name(t) = NameOf("sockaddr_storage")
        /\ ret[t] = 128
        /\ size_of_nosocket(type[t]) = 0

\* A step of thread t inside size_of, from entry to the return statement.
InCall(t) == size_of_step(t) \/ \E p \in Addr : Call(t, p)

\* C4: under every interleaving of concurrent calls, each call returns the
\* value it returns when run alone, and no step of a call changes the frame
\* of another thread's call.
C4_ConcurrentCalls ==
    /\ [](\A t \in Threads : Returned(t) => ret[t] = size_of(type[t]))
    /\ [][\A t \in Threads :
            InCall(t) =>
                \A u \in Threads \ {t} :
                    /\ pc'[u] = pc[u]
                    /\ type'[u] = type[u]
                    /\ ret'[u] = ret[u]
                    /\ ncmp'[u] = ncmp[u]]_vars

C4_Witness ==
    \E t, u \in Threads :
        /\ t # u
        /\ Returned(t)
        /\ ret[t] > 0
        /\ pc[u] \in {"L24", "L27"}
        /\ type[u] # type[t]

\* C5: a call with the same name contents as the call noted earlier returns
\* the value that call returned, whatever calls were made in between.
C5_Deterministic ==
    \A t \in Threads :
        (Returned(t) /\ obs.set /\ Name(t) = obs.name) => ret[t] = obs.value

C5_Witness ==
    \E t \in Threads :
        /\ Returned(t)
        /\ obs.set
        /\ Name(t) = obs.name
        /\ type[t] # obs.ptr
        /\ ret[t] = obs.value
        /\ ret[t] > 0

PCs == {"idle", "L21", "L24", "L27", "L29", "done"}

\* C6: every call returns after at most three comparisons, with an unsigned
\* integer and through no other exit, and the value is 0 exactly when the
\* name is not recognized.
C6_TerminatesZeroIffUnknown ==
    /\ [](\A t \in Threads :
            /\ pc[t] \in PCs
            /\ ncmp[t] <= 3
            /\ ret[t] \in Nat
            /\ Returned(t) => (ret[t] = 0 <=> ~Recognized(Name(t))))
    /\ \A p \in Addr :
          (pc[1] = "L21" /\ type[1] = p) ~> (Returned(1) /\ type[1] = p)

C6_Witness ==
    \E t \in Threads :
        /\ Returned(t)
        /\ Name(t) = <<>>
        /\ ncmp[t] = 3
        /\ ret[t] = 0

\* The orders in which the three comparisons can be made.
Orders ==
    { o \in [1..Len(Entries) -> TypeNames] :
        \A i, j \in 1..Len(Entries) : i # j => o[i] # o[j] }

\* C7: at most one comparison succeeds for a name, and the chain returns
\* the same value in every order of the comparisons.
C7_OrderIrrelevant ==
    \A t \in Threads :
        Returned(t) =>
            /\ Cardinality({T \in TypeNames :
                              0 = strcmp(type[t], Stringify(T))}) <= 1
            /\ \A o \in Orders : Chain(o, type[t]) = ret[t]

C7_Witness ==
    \E t \in Threads :
        /\ Returned(t)
        /\ Name(t) = NameOf("iovec")
        /\ ncmp[t] = 3
        /\ Chain(<<"iovec", "sockaddr_storage", "long">>, type[t]) = ret[t]
        /\ ret[t] > 0

\* The static mapping from name to size.
StaticMap ==
    [k \in {NameOf(T) : T \in TypeNames} |->
        sizeof(CHOOSE T \in TypeNames : NameOf(T) = k)]

Lookup(k) == IF k \in DOMAIN StaticMap THEN StaticMap[k] ELSE 0

\* C8: a lookup of the name in the static mapping, 0 for an absent key,
\* gives the value size_of returns.
C8_StaticMapEquivalent ==
    \A t \in Threads : Returned(t) => ret[t] = Lookup(Name(t))

C8_Witness ==
    \E t \in Threads :
        /\ Returned(t)
        /\ Name(t) = Str(<<"l", "o", "n">>)
        /\ Name(t) \notin DOMAIN StaticMap
        /\ ret[t] = 0

\* C9: no step of a call changes the name string or any other memory, the
\* platform, what the caller has noted, or the call's own parameter; the
\* steps before the return leave the result untouched.
C9_SideEffectFree ==
    [][\A t \in Threads :
          /\ size_of_step(t) =>
                /\ UNCHANGED <<mem, platform, obs>>
                /\ type'[t] = type[t]
                /\ pc'[t] # "done" => ret'[t] = ret[t]
          /\ (\E p \in Addr : Call(t, p)) =>
                UNCHANGED <<mem, platform, obs, ret>>]_vars

C9_Witness ==
    \E t \in Threads :
        /\ Returned(t)
        /\ Name(t) = Str(<<"n", "o", "n", "e", "x", "i", "s", "t", "e", "n",
                           "t", "_", "t", "y", "p", "e">>)
        /\ ret[t] = 0
        /\ mem = InitMem

====
